---- MODULE Spec2Model ----
(***************************************************************************)
(* Model of scripts/transform_for_bq.py: transform_record rewrites the     *)
(* LocationGeo field of a decoded JSONL record into a WKT point string,    *)
(* and main drives it over the lines of standard input.                    *)
(*                                                                         *)
(* A decoded JSON value is a record [t, s, items]:                         *)
(*   t      the Python type: "null" "bool" "int" "float" "str" "list"      *)
(*          "dict";                                                        *)
(*   s      the scalar's text as Python's str() renders it ("" for null    *)
(*          and for containers);                                           *)
(*   items  the container's entries in order, each [k, v] (k = "" in a     *)
(*          list); <<>> for scalars.                                       *)
(* A line of text is a sequence of lexical tokens [c, x]: c is the token   *)
(* class ("ws" "punct" "str" "num" "lit" "bad") and x its text.  Strings   *)
(* are those that need no escaping in JSON; numbers are the literals       *)
(* listed under IntLiterals and FloatRepr.                                 *)
(*                                                                         *)
(* Standard input is fixed when the process starts; each action is one     *)
(* iteration of the loop of main, up to the point where the iteration      *)
(* ends.  An uncaught exception ends the process with exit status 1.       *)
(* Errors of the streams themselves (a closed pipe) are not modelled.      *)
(***************************************************************************)
EXTENDS Integers, Sequences, FiniteSets, TLC

VARIABLES
    stdin,      \* main: the lines of standard input
    pos,        \* main: number of lines the for loop has taken from stdin
    stdout,     \* main: the lines printed so far
    pc,         \* main: "reading" | "done"
    exit_code,  \* main: process exit status once pc = "done" (-1 while running)
    error,      \* main: name of the uncaught exception ("" if none)
    run,        \* 1 for a run on fresh input, 2 for a run on the first run's output
    arg,        \* latest call of transform_record: the record as passed in
    record,     \* latest call: the record object afterwards (mutated in place)
    outcome,    \* latest call: "" (no call yet) | "return" | "raise"
    exc,        \* latest call: name of the exception raised ("" if none)
    rewrote,    \* per line of stdout: whether the call replaced LocationGeo
    fed         \* run 2: rewrote of the run whose output is now stdin

vars == <<stdin, pos, stdout, pc, exit_code, error, run, arg, record, outcome, exc, rewrote, fed>>

---------------------------------------------------------------------------
(* Bounds of the model.                                                    *)

\* longest input stream, in lines
MaxLines == 3

---------------------------------------------------------------------------
(* JSON values as Python objects.                                          *)

None == [t |-> "null", s |-> "", items |-> <<>>]
JBool(b) == [t |-> "bool", s |-> IF b THEN "True" ELSE "False", items |-> <<>>]
JInt(s) == [t |-> "int", s |-> s, items |-> <<>>]
JFloat(s) == [t |-> "float", s |-> s, items |-> <<>>]
JStr(s) == [t |-> "str", s |-> s, items |-> <<>>]
JList(vs) == [t |-> "list", s |-> "", items |-> [i \in 1..Len(vs) |-> [k |-> "", v |-> vs[i]]]]
JDict(items) == [t |-> "dict", s |-> "", items |-> items]
KV(k, v) == [k |-> k, v |-> v]

\* (variant: zero counts as truthy)
TruthyNonZero(v) ==
    CASE v.t = "null" -> FALSE
      [] v.t = "bool" -> v.s = "True"
      [] v.t = "int" -> TRUE
      [] v.t = "float" -> TRUE
      [] v.t = "str" -> v.s # ""
      [] OTHER -> v.items # <<>>

\* bool(v): None, False, zero, and empty strings and containers are falsy.
Truthy(v) ==
    CASE v.t = "null" -> FALSE
      [] v.t = "bool" -> v.s = "True"
      [] v.t = "int" -> v.s # "0"
      [] v.t = "float" -> v.s \notin {"0.0", "-0.0"}
      [] v.t = "str" -> v.s # ""
      [] OTHER -> v.items # <<>>

Keys(d) == {d.items[i].k : i \in 1..Len(d.items)}

\* Position of key k in dict d (0 if absent).
IndexOf(d, k) ==
    IF k \in Keys(d) THEN CHOOSE i \in 1..Len(d.items) : d.items[i].k = k ELSE 0

\* d[k] for a dict d that has key k.
Get(d, k) == d.items[IndexOf(d, k)].v

\* d[k] = v on a dict: an existing key keeps its position, a new key is appended.
SetItem(d, k, v) ==
    IF k \in Keys(d)
    THEN [d EXCEPT !.items[IndexOf(d, k)].v = v]
    ELSE [d EXCEPT !.items = Append(d.items, KV(k, v))]

\* Strings of the model whose text contains 'LocationGeo' (str.__contains__).
ContainsLocationGeo(s) == s \in {"LocationGeo", "myLocationGeo"}

\* (variant: membership is tested on any value, and false on a scalar)
IsContainerAny(obj) == TRUE

\* Whether `key in obj` is defined: int, float, bool and None are not iterable.
IsContainer(obj) == obj.t \in {"str", "list", "dict"}

\* 'LocationGeo' in obj, for a container obj: key membership for a dict,
\* element membership for a list, substring for a str.
HasLocationGeo(obj) ==
    CASE obj.t = "dict" -> "LocationGeo" \in Keys(obj)
      [] obj.t = "list" -> \E i \in 1..Len(obj.items) : obj.items[i].v = JStr("LocationGeo")
      [] obj.t = "str" -> ContainsLocationGeo(obj.s)
      [] OTHER -> FALSE

\* (variant: the lookup is obj.get(key), which only a dict has)
SubscriptErrorAttr(obj, key) ==
    IF obj.t = "dict"
    THEN IF key \in Keys(obj) THEN "" ELSE "KeyError"
    ELSE "AttributeError"

\* obj[key] with a str key: "" when it succeeds, else the exception raised.
\* Only a dict can be indexed by a str; a list or str wants integer indices and
\* the other types are not subscriptable (TypeError either way).
SubscriptError(obj, key) ==
    IF obj.t = "dict"
    THEN IF key \in Keys(obj) THEN "" ELSE "KeyError"
    ELSE "TypeError"

RECURSIVE PyRepr(_)
RECURSIVE ReprItems(_, _, _)
\* The entries of a container from index i on, as repr() lists them.
ReprItems(obj, i, isDict) ==
    IF i > Len(obj.items) THEN ""
    ELSE (IF i > 1 THEN ", " ELSE "")
         \o (IF isDict THEN "'" \o obj.items[i].k \o "': " ELSE "")
         \o PyRepr(obj.items[i].v)
         \o ReprItems(obj, i + 1, isDict)

\* repr(v)
PyRepr(v) ==
    CASE v.t = "null" -> "None"
      [] v.t = "str" -> "'" \o v.s \o "'"
      [] v.t = "list" -> "[" \o ReprItems(v, 1, FALSE) \o "]"
      [] v.t = "dict" -> "{" \o ReprItems(v, 1, TRUE) \o "}"
      [] OTHER -> v.s

\* format(v, ''), what an f-string replacement field renders: str(v).
PyStr(v) == IF v.t = "str" THEN v.s ELSE PyRepr(v)

\* (variant: latitude written first)
WKTLatFirst(lon, lat) == "POINT(" \o PyStr(lat) \o " " \o PyStr(lon) \o ")"

\* f"POINT({lon} {lat})"
WKT(lon, lat) == "POINT(" \o PyStr(lon) \o " " \o PyStr(lat) \o ")"

---------------------------------------------------------------------------
(* transform_record                                                        *)

\* What a call leaves behind: exc = "" and the record object it returns, or
\* the exception it raises and the record object as it is at that moment.
Return(rec) == [exc |-> "", record |-> rec]
Raise(e, rec) == [exc |-> e, record |-> rec]

\* (variant: the result is a new record holding only the rewritten field)
transform_record_fresh(rec) ==
    IF ~IsContainer(rec) THEN Raise("TypeError", rec)
    ELSE IF ~HasLocationGeo(rec) THEN Return(rec)
    ELSE IF SubscriptError(rec, "LocationGeo") # ""
         THEN Raise(SubscriptError(rec, "LocationGeo"), rec)
    ELSE LET geo == Get(rec, "LocationGeo")
         IN  IF ~Truthy(geo) THEN Return(rec)
             ELSE IF SubscriptError(geo, "latitude") # ""
                  THEN Raise(SubscriptError(geo, "latitude"), rec)
             ELSE IF SubscriptError(geo, "longitude") # ""
                  THEN Raise(SubscriptError(geo, "longitude"), rec)
             ELSE LET lat == Get(geo, "latitude")
                      lon == Get(geo, "longitude")
                  IN  Return(JDict(<<KV("LocationGeo", JStr(WKT(lon, lat)))>>))

\* (variant: a missing sub-field of a mapping reads as None, as with dict.get)
transform_record_defaults(rec) ==
    IF ~IsContainer(rec) THEN Raise("TypeError", rec)
    ELSE IF ~HasLocationGeo(rec) THEN Return(rec)
    ELSE IF SubscriptError(rec, "LocationGeo") # ""
         THEN Raise(SubscriptError(rec, "LocationGeo"), rec)
    ELSE LET geo == Get(rec, "LocationGeo")
         IN  IF ~Truthy(geo) THEN Return(rec)
             ELSE IF geo.t # "dict" THEN Raise("TypeError", rec)
             ELSE LET lat == IF "latitude" \in Keys(geo) THEN Get(geo, "latitude") ELSE None
                      lon == IF "longitude" \in Keys(geo) THEN Get(geo, "longitude") ELSE None
                  IN  Return(SetItem(rec, "LocationGeo", JStr(WKT(lon, lat))))

\* (variant: a LocationGeo that is not a dict is left alone)
transform_record_dictonly(rec) ==
    IF ~IsContainer(rec) THEN Raise("TypeError", rec)
    ELSE IF ~HasLocationGeo(rec) THEN Return(rec)
    ELSE IF SubscriptError(rec, "LocationGeo") # ""
         THEN Raise(SubscriptError(rec, "LocationGeo"), rec)
    ELSE LET geo == Get(rec, "LocationGeo")
         IN  IF ~Truthy(geo) \/ geo.t # "dict" THEN Return(rec)
             ELSE IF SubscriptError(geo, "latitude") # ""
                  THEN Raise(SubscriptError(geo, "latitude"), rec)
             ELSE IF SubscriptError(geo, "longitude") # ""
                  THEN Raise(SubscriptError(geo, "longitude"), rec)
             ELSE LET lat == Get(geo, "latitude")
                      lon == Get(geo, "longitude")
                  IN  Return(SetItem(rec, "LocationGeo", JStr(WKT(lon, lat))))

\* def transform_record(record), statement by statement.
transform_record(rec) ==
    IF ~IsContainer(rec) THEN Raise("TypeError", rec)                  \* 11: 'LocationGeo' in record
    ELSE IF ~HasLocationGeo(rec) THEN Return(rec)                      \* 11 -> 16
    ELSE IF SubscriptError(rec, "LocationGeo") # ""                    \* 11: record['LocationGeo']
         THEN Raise(SubscriptError(rec, "LocationGeo"), rec)
    ELSE LET geo == Get(rec, "LocationGeo")
         IN  IF ~Truthy(geo) THEN Return(rec)                          \* 11 -> 16
             ELSE IF SubscriptError(geo, "latitude") # ""              \* 12
                  THEN Raise(SubscriptError(geo, "latitude"), rec)
             ELSE IF SubscriptError(geo, "longitude") # ""             \* 13
                  THEN Raise(SubscriptError(geo, "longitude"), rec)
             ELSE LET lat == Get(geo, "latitude")
                      lon == Get(geo, "longitude")
                  IN  Return(SetItem(rec, "LocationGeo", JStr(WKT(lon, lat))))  \* 15, 16

---------------------------------------------------------------------------
(* Text: lines as token sequences, str.strip, json.loads, json.dumps.      *)

Ws(x) == [c |-> "ws", x |-> x]
P(x) == [c |-> "punct", x |-> x]
S(x) == [c |-> "str", x |-> x]
N(x) == [c |-> "num", x |-> x]
L(x) == [c |-> "lit", x |-> x]
Bad(x) == [c |-> "bad", x |-> x]
NL == Ws("\n")
SP == Ws(" ")

RECURSIVE strip(_)
\* line.strip(): leading and trailing whitespace characters removed (space,
\* tab, newline, carriage return, form feed, ...).
strip(line) ==
    IF line = <<>> THEN line
    ELSE IF line[1].c = "ws" THEN strip(Tail(line))
    ELSE IF line[Len(line)].c = "ws" THEN strip(SubSeq(line, 1, Len(line) - 1))
    ELSE line

\* The whitespace json.loads accepts around values: no form feed.
JsonWhitespace == {" ", "\t", "\n", "\r"}

\* Number literals of the model that json.loads decodes with int().
IntLiterals == {"0", "1", "5"}

\* repr(float(x)) for the float literals of the model.
FloatRepr(x) ==
    CASE x = "1.50" -> "1.5"
      [] x = "1e2" -> "100.0"
      [] OTHER -> x

\* A JSON number: int(x) when it has no fraction or exponent, else float(x).
NumberValue(x) == IF x \in IntLiterals THEN JInt(x) ELSE JFloat(FloatRepr(x))

\* The constants of JSON.
LiteralValue(x) ==
    CASE x = "null" -> None
      [] x = "true" -> JBool(TRUE)
      [] OTHER -> JBool(FALSE)

\* A parse step's result: the value and the index after it, or a failure.
Parsed(v, i) == [ok |-> TRUE, v |-> v, i |-> i]
ParseFail == [ok |-> FALSE, v |-> None, i |-> 0]

RECURSIVE SkipWs(_, _)
\* The index of the first token at or after i that is not JSON whitespace.
SkipWs(toks, i) ==
    IF i <= Len(toks) /\ toks[i].c = "ws" /\ toks[i].x \in JsonWhitespace
    THEN SkipWs(toks, i + 1)
    ELSE i

IsP(toks, i, x) == i <= Len(toks) /\ toks[i] = P(x)

\* F applied to the value of e, with e evaluated once.
With(e, F(_)) == CHOOSE r \in { F(x) : x \in {e} } : TRUE

RECURSIVE ParseValue(_, _)
RECURSIVE ParseMembers(_, _, _)
RECURSIVE ParseElements(_, _, _)

\* The members of an object from the key expected at i on; acc is the dict
\* built so far (a repeated key keeps its place and takes the later value).
ParseMembers(toks, i, acc) ==
    IF ~(i <= Len(toks) /\ toks[i].c = "str") THEN ParseFail
    ELSE With(SkipWs(toks, i + 1), LAMBDA colon :
         IF ~IsP(toks, colon, ":") THEN ParseFail
         ELSE With(ParseValue(toks, SkipWs(toks, colon + 1)), LAMBDA val :
              IF ~val.ok THEN ParseFail
              ELSE With(SkipWs(toks, val.i), LAMBDA next :
                   With(SetItem(acc, toks[i].x, val.v), LAMBDA dict :
                   IF IsP(toks, next, "}") THEN Parsed(dict, next + 1)
                   ELSE IF IsP(toks, next, ",")
                        THEN With(SkipWs(toks, next + 1), LAMBDA key :
                             ParseMembers(toks, key, dict))
                   ELSE ParseFail))))

\* The elements of an array from the value expected at i on.
ParseElements(toks, i, acc) ==
    With(ParseValue(toks, i), LAMBDA val :
    IF ~val.ok THEN ParseFail
    ELSE With(SkipWs(toks, val.i), LAMBDA next :
         With(Append(acc, val.v), LAMBDA list :
         IF IsP(toks, next, "]") THEN Parsed(JList(list), next + 1)
         ELSE IF IsP(toks, next, ",")
              THEN With(SkipWs(toks, next + 1), LAMBDA elem :
                   ParseElements(toks, elem, list))
         ELSE ParseFail)))

\* One JSON value starting exactly at i.
ParseValue(toks, i) ==
    With(i, LAMBDA at :
    IF at > Len(toks) THEN ParseFail
    ELSE CASE toks[at].c = "str" -> Parsed(JStr(toks[at].x), at + 1)
           [] toks[at].c = "num" -> Parsed(NumberValue(toks[at].x), at + 1)
           [] toks[at].c = "lit" -> Parsed(LiteralValue(toks[at].x), at + 1)
           [] toks[at] = P("{") ->
                With(SkipWs(toks, at + 1), LAMBDA first :
                IF IsP(toks, first, "}") THEN Parsed(JDict(<<>>), first + 1)
                ELSE ParseMembers(toks, first, JDict(<<>>)))
           [] toks[at] = P("[") ->
                With(SkipWs(toks, at + 1), LAMBDA first :
                IF IsP(toks, first, "]") THEN Parsed(JList(<<>>), first + 1)
                ELSE ParseElements(toks, first, <<>>))
           [] OTHER -> ParseFail)

\* json.loads(line): one value with optional whitespace around it and nothing
\* else; anything else raises json.JSONDecodeError.
json_loads(text) ==
    With(ParseValue(text, SkipWs(text, 1)), LAMBDA val :
    IF val.ok /\ SkipWs(text, val.i) = Len(text) + 1
    THEN [exc |-> "", v |-> val.v]
    ELSE [exc |-> "JSONDecodeError", v |-> None])

RECURSIVE json_dumps(_)
RECURSIVE DumpItems(_, _)
\* The entries of a container from index i on, separated by ", ", a dict's
\* as "key": value.
DumpItems(obj, i) ==
    IF i > Len(obj.items) THEN <<>>
    ELSE (IF i > 1 THEN <<P(","), SP>> ELSE <<>>)
         \o (IF obj.t = "dict" THEN <<S(obj.items[i].k), P(":"), SP>> ELSE <<>>)
         \o json_dumps(obj.items[i].v)
         \o DumpItems(obj, i + 1)

\* json.dumps(v) with the default separators.
json_dumps(v) ==
    CASE v.t = "null" -> <<L("null")>>
      [] v.t = "bool" -> <<L(IF v.s = "True" THEN "true" ELSE "false")>>
      [] v.t \in {"int", "float"} -> <<N(v.s)>>
      [] v.t = "str" -> <<S(v.s)>>
      [] v.t = "list" -> <<P("[")>> \o DumpItems(v, 1) \o <<P("]")>>
      [] OTHER -> <<P("{")>> \o DumpItems(v, 1) \o <<P("}")>>

---------------------------------------------------------------------------
(* Inputs.                                                                 *)

Geo(lat, lon) == JDict(<<KV("latitude", lat), KV("longitude", lon)>>)

\* Values tried for the LocationGeo field.
GeoValues ==
    { None, JBool(FALSE), JBool(TRUE), JInt("0"), JInt("5"), JFloat("0.0"),
      JFloat("-0.0"), JFloat("1.5"), JStr(""), JStr("POINT(1 2)"), JStr("latitude"),
      JList(<<>>), JList(<<JInt("1")>>), JList(<<JStr("latitude"), JStr("longitude")>>),
      JDict(<<>>),
      Geo(JFloat("37.7749"), JFloat("-122.4194")),
      Geo(JInt("1"), JInt("0")),
      Geo(JFloat("100.0"), JFloat("1.5")),
      Geo(None, JStr("x")),
      Geo(JDict(<<KV("deg", JInt("1"))>>), JList(<<JStr("a"), JBool(TRUE)>>)),
      JDict(<<KV("longitude", JInt("5")), KV("alt", JInt("1")), KV("latitude", JFloat("1.0"))>>),
      JDict(<<KV("latitude", JFloat("1.0"))>>),
      JDict(<<KV("longitude", JFloat("1.0"))>>),
      JDict(<<KV("lat", JInt("1")), KV("lon", JInt("5"))>>) }

\* Records tried one at a time: every LocationGeo value at several places
\* among other fields, records without the key, and values that are no dict.
Records ==
    { JDict(<<KV("LocationGeo", g)>>) : g \in GeoValues }
    \cup { JDict(<<KV("id", JInt("1")), KV("LocationGeo", g)>>) : g \in GeoValues }
    \cup { JDict(<<KV("LocationGeo", g), KV("type", JStr("POLICE"))>>) : g \in GeoValues }
    \cup { JDict(<<KV("id", JInt("1")), KV("LocationGeo", g), KV("latitude", JInt("5"))>>) :
             g \in GeoValues }
    \cup { JDict(<<>>), JDict(<<KV("id", JInt("1"))>>),
           JDict(<<KV("latitude", JInt("1")), KV("longitude", JInt("5"))>>),
           JDict(<<KV("locationgeo", Geo(JInt("1"), JInt("5")))>>),
           None, JBool(TRUE), JBool(FALSE), JInt("0"), JInt("5"), JFloat("1.5"),
           JStr(""), JStr("abc"), JStr("LocationGeo"), JStr("myLocationGeo"),
           JList(<<>>), JList(<<JInt("1")>>), JList(<<JStr("LocationGeo")>>) }

\* Lines tried in streams of several lines.
InputLines ==
    { \* {"id": 1, "LocationGeo": {"latitude": 37.7749, "longitude": -122.4194}}
      <<P("{"), S("id"), P(":"), SP, N("1"), P(","), SP, S("LocationGeo"), P(":"), SP,
        P("{"), S("latitude"), P(":"), SP, N("37.7749"), P(","), SP,
        S("longitude"), P(":"), SP, N("-122.4194"), P("}"), P("}"), NL>>,
      \* {"LocationGeo":{"longitude":1.50,"latitude":1e2},"id":5} between a space
      \* and a tab, with no line terminator
      <<SP, P("{"), S("LocationGeo"), P(":"), P("{"), S("longitude"), P(":"), N("1.50"),
        P(","), S("latitude"), P(":"), N("1e2"), P("}"), P(","), S("id"), P(":"), N("5"),
        P("}"), Ws("\t")>>,
      \* {"id": 5, "LocationGeo": null}
      <<P("{"), S("id"), P(":"), SP, N("5"), P(","), SP, S("LocationGeo"), P(":"), SP,
        L("null"), P("}"), NL>>,
      \* {"id": 0}
      <<P("{"), S("id"), P(":"), SP, N("0"), P("}"), NL>>,
      \* {"id": 1, "LocationGeo": {"latitude": 1.0}}
      <<P("{"), S("id"), P(":"), SP, N("1"), P(","), SP, S("LocationGeo"), P(":"), SP,
        P("{"), S("latitude"), P(":"), SP, N("1.0"), P("}"), P("}"), NL>>,
      \* {"LocationGeo": "POINT(1 2)"}
      <<P("{"), S("LocationGeo"), P(":"), SP, S("POINT(1 2)"), P("}"), NL>>,
      \* not valid json
      <<Bad("not"), SP, Bad("valid"), SP, Bad("json"), NL>>,
      \* {"id": 1,}
      <<P("{"), S("id"), P(":"), SP, N("1"), P(","), P("}"), NL>>,
      \* 5
      <<N("5"), NL>>,
      \* null
      <<L("null"), NL>>,
      \* an empty line, and a line of a space and a form feed
      <<NL>>,
      <<SP, Ws("\f"), NL>> }

\* Further single lines: text json.loads rejects, and blank lines.
OddLines ==
    { <<Ws("\f"), P("{"), P("}"), NL>>,             \* form feed before {}
      <<P("{"), P("}"), SP, P("{"), P("}"), NL>>,   \* {} {}
      <<P("{"), S("id"), P(":"), N("1"), NL>>,      \* {"id":1
      <<P("["), N("1"), P(","), P("]"), NL>>,       \* [1,]
      <<P("{"), N("1"), P(":"), N("1"), P("}"), NL>>,  \* {1:1}
      <<P("{"), S("a"), P(":"), N("1"), P(","), S("a"), P(":"), N("5"), P("}")>>,  \* {"a":1,"a":5}
      <<L("true")>>,
      <<SP>>,
      <<Ws("\t"), SP, NL>> }

\* Whether a line ends with its line terminator.
Terminated(line) == line # <<>> /\ line[Len(line)] = NL

\* Streams of up to MaxLines lines of InputLines.
SeqsUpTo(set, n) == UNION { [1..k -> set] : k \in 0..n }

\* The streams tried: every line but the last of a stream is terminated.
Streams ==
    { str \in SeqsUpTo(InputLines, MaxLines) : \A i \in 1..(Len(str) - 1) : Terminated(str[i]) }
    \cup { <<json_dumps(r) \o <<NL>>>> : r \in Records }
    \cup { <<json_dumps(r)>> : r \in Records }
    \cup { <<line>> : line \in OddLines }

---------------------------------------------------------------------------
(* main: one action per way an iteration of `for line in sys.stdin` ends.  *)

Init ==
    /\ stdin \in Streams
    /\ pos = 0
    /\ stdout = <<>>
    /\ pc = "reading"
    /\ exit_code = -1
    /\ error = ""
    /\ run = 1
    /\ arg = None
    /\ record = None
    /\ outcome = ""
    /\ exc = ""
    /\ rewrote = <<>>
    /\ fed = <<>>

\* The line the for loop takes next.
line == stdin[pos + 1]

HasLine == pc = "reading" /\ pos < Len(stdin)

callVars == <<arg, record, outcome, exc>>

\* (variant: a blank line is echoed as an empty output line)
SkipBlankEchoes ==
    /\ HasLine
    /\ strip(line) = <<>>
    /\ pos' = pos + 1
    /\ stdout' = Append(stdout, <<NL>>)
    /\ rewrote' = Append(rewrote, FALSE)
    /\ UNCHANGED <<stdin, pc, exit_code, error, run, callVars, fed>>

\* 20-21: the line is empty after strip(); nothing is done with it.
SkipBlank ==
    /\ HasLine
    /\ strip(line) = <<>>
    /\ pos' = pos + 1
    /\ UNCHANGED <<stdin, stdout, pc, exit_code, error, run, callVars, rewrote, fed>>

\* (variant: a line that does not decode is skipped)
DecodeSkips ==
    /\ HasLine
    /\ strip(line) # <<>>
    /\ json_loads(line).exc # ""
    /\ pos' = pos + 1
    /\ UNCHANGED <<stdin, stdout, pc, exit_code, error, run, callVars, rewrote, fed>>

\* 22: json.loads raises; the exception is not caught and the process exits 1.
DecodeFails ==
    /\ HasLine
    /\ strip(line) # <<>>
    /\ json_loads(line).exc # ""
    /\ pos' = pos + 1
    /\ pc' = "done"
    /\ error' = json_loads(line).exc
    /\ exit_code' = 1
    /\ UNCHANGED <<stdin, stdout, run, callVars, rewrote, fed>>

\* (variant: a record that cannot be transformed is dropped and the loop goes on)
TransformFailsContinues ==
    /\ HasLine
    /\ strip(line) # <<>>
    /\ json_loads(line).exc = ""
    /\ \E decoded \in {json_loads(line).v} :
       \E res \in {transform_record(decoded)} :
           /\ res.exc # ""
           /\ arg' = decoded
           /\ record' = res.record
           /\ outcome' = "raise"
           /\ exc' = res.exc
    /\ pos' = pos + 1
    /\ UNCHANGED <<stdin, stdout, pc, exit_code, error, run, rewrote, fed>>

\* 22-23: the line decodes and transform_record raises; the process exits 1.
TransformFails ==
    /\ HasLine
    /\ strip(line) # <<>>
    /\ json_loads(line).exc = ""
    /\ \E decoded \in {json_loads(line).v} :
       \E res \in {transform_record(decoded)} :
           /\ res.exc # ""
           /\ arg' = decoded
           /\ record' = res.record
           /\ outcome' = "raise"
           /\ exc' = res.exc
           /\ error' = res.exc
    /\ pos' = pos + 1
    /\ pc' = "done"
    /\ exit_code' = 1
    /\ UNCHANGED <<stdin, stdout, run, rewrote, fed>>

\* 22-24: the line decodes, transform_record returns and the result is printed.
Emit ==
    /\ HasLine
    /\ strip(line) # <<>>
    /\ json_loads(line).exc = ""
    /\ \E decoded \in {json_loads(line).v} :
       \E res \in {transform_record(decoded)} :
           /\ res.exc = ""
           /\ arg' = decoded
           /\ record' = res.record
           /\ outcome' = "return"
           /\ exc' = ""
           /\ stdout' = Append(stdout, json_dumps(res.record) \o <<NL>>)
           /\ rewrote' = Append(rewrote, res.record # decoded)
    /\ pos' = pos + 1
    /\ UNCHANGED <<stdin, pc, exit_code, error, run, fed>>

\* 20: standard input is exhausted; main returns and the process exits 0.
EndOfStream ==
    /\ pc = "reading"
    /\ pos = Len(stdin)
    /\ pc' = "done"
    /\ exit_code' = 0
    /\ UNCHANGED <<stdin, pos, stdout, error, run, callVars, rewrote, fed>>

\* The environment runs the program once more, on the output of a run that
\* succeeded.
Rerun ==
    /\ pc = "done"
    /\ exit_code = 0
    /\ run = 1
    /\ run' = 2
    /\ stdin' = stdout
    /\ fed' = rewrote
    /\ pos' = 0
    /\ stdout' = <<>>
    /\ rewrote' = <<>>
    /\ pc' = "reading"
    /\ exit_code' = -1
    /\ error' = ""
    /\ arg' = None
    /\ record' = None
    /\ outcome' = ""
    /\ exc' = ""

Next ==
    \/ SkipBlank
    \/ DecodeFails
    \/ TransformFails
    \/ Emit
    \/ EndOfStream
    \/ Rerun

Spec == Init /\ [][Next]_vars

\* The interpreter keeps executing main until it returns or raises.
LiveSpec == Spec /\ WF_vars(Next)

---------------------------------------------------------------------------
(* Vocabulary of the properties, defined apart from the operators above.   *)

\* transform_record has been called (in the current run).
Called == outcome # ""

\* r is a mapping with the key LocationGeo.
HasGeoKey(r) == r.t = "dict" /\ \E i \in 1..Len(r.items) : r.items[i].k = "LocationGeo"

\* The value r maps key k to.
ValueOf(r, k) == r.items[CHOOSE i \in 1..Len(r.items) : r.items[i].k = k].v

KeySet(r) == {r.items[i].k : i \in 1..Len(r.items)}

\* Python's falsy JSON values: null, false, zero, "", [] and {}.
FalsyValues ==
    { None, JBool(FALSE), JInt("0"), JFloat("0.0"), JFloat("-0.0"), JStr(""),
      JList(<<>>), JDict(<<>>) }

\* A line of nothing but whitespace characters.
Blank(l) == \A i \in 1..Len(l) : l[i].c = "ws"

\* Number of non-blank lines among the first n lines of standard input.
NonBlankBefore(n) == Cardinality({i \in 1..n : ~Blank(stdin[i])})

\* The index in stdin of the j-th non-blank line.
NthNonBlank(j) == CHOOSE i \in 1..Len(stdin) : ~Blank(stdin[i]) /\ NonBlankBefore(i) = j

\* The output line for an input line: the encoding of the transform of its
\* decoding, and the line terminator print adds.
OutputFor(l) == json_dumps(transform_record(json_loads(l).v).record) \o <<NL>>

\* stdout holds exactly the output lines of the non-blank lines among the
\* first n lines of standard input, in their order.
OutputIsOfFirst(n) ==
    /\ Len(stdout) = NonBlankBefore(n)
    /\ \A j \in 1..Len(stdout) : stdout[j] = OutputFor(stdin[NthNonBlank(j)])

\* The process ended by an uncaught exception e raised for line k: exit
\* status 1, no line after k read, output only for the lines before k.
FailedAt(k, e) ==
    /\ pc = "done"
    /\ exit_code = 1
    /\ error = e
    /\ pos = k
    /\ OutputIsOfFirst(k - 1)

---------------------------------------------------------------------------
(* Properties.                                                             *)

\* C1: whenever transform_record is called on a record whose LocationGeo is
\* a mapping with latitude LAT and longitude LON, it returns the record with
\* LocationGeo equal to the string POINT(LON LAT): the longitude's text,
\* one space, the latitude's text.
C1_WktLonLat ==
    (/\ Called
     /\ HasGeoKey(arg)
     /\ ValueOf(arg, "LocationGeo").t = "dict"
     /\ {"latitude", "longitude"} \subseteq KeySet(ValueOf(arg, "LocationGeo")))
    => LET geo == ValueOf(arg, "LocationGeo")
           LAT == ValueOf(geo, "latitude")
           LON == ValueOf(geo, "longitude")
       IN  /\ outcome = "return"
           /\ HasGeoKey(record)
           /\ ValueOf(record, "LocationGeo") =
                JStr("POINT(" \o PyStr(LON) \o " " \o PyStr(LAT) \o ")")
           /\ (LAT = JFloat("37.7749") /\ LON = JFloat("-122.4194")
                 => ValueOf(record, "LocationGeo") = JStr("POINT(-122.4194 37.7749)"))
           /\ (LAT = None /\ LON = JStr("x")
                 => ValueOf(record, "LocationGeo") = JStr("POINT(x None)"))

\* C1 witness: the record of the first example scenario has been rewritten.
C1_Witness ==
    /\ outcome = "return"
    /\ HasGeoKey(arg)
    /\ ValueOf(arg, "LocationGeo") = Geo(JFloat("37.7749"), JFloat("-122.4194"))
    /\ ValueOf(record, "LocationGeo") = JStr("POINT(-122.4194 37.7749)")

\* C2: whenever transform_record is called on a mapping that has no
\* LocationGeo key, or whose LocationGeo is falsy, it raises nothing and
\* returns the record equal to its input.
C2_PassThrough ==
    (/\ Called
     /\ arg.t = "dict"
     /\ (HasGeoKey(arg) => ValueOf(arg, "LocationGeo") \in FalsyValues))
    => /\ outcome = "return"
       /\ exc = ""
       /\ record = arg

\* C2 witness: a record with a null LocationGeo came back unchanged.
C2_Witness ==
    /\ outcome = "return"
    /\ HasGeoKey(arg)
    /\ ValueOf(arg, "LocationGeo") = None
    /\ Len(arg.items) > 1
    /\ record = arg

\* C3: whenever transform_record returns a record it changed, the result
\* has the key set of the input and every key other than LocationGeo maps
\* to the value it had.
C3_Frame ==
    (outcome = "return" /\ record # arg)
    => /\ record.t = "dict"
       /\ arg.t = "dict"
       /\ KeySet(record) = KeySet(arg)
       /\ Len(record.items) = Len(arg.items)
       /\ \A k \in KeySet(arg) \ {"LocationGeo"} : ValueOf(record, k) = ValueOf(arg, k)
       /\ ValueOf(record, "LocationGeo") # ValueOf(arg, "LocationGeo")

\* C3 witness: a record with fields on both sides of LocationGeo was rewritten.
C3_Witness ==
    /\ outcome = "return"
    /\ record # arg
    /\ Len(arg.items) = 3
    /\ arg.items[2].k = "LocationGeo"

\* C4: when a run ends without error, stdout holds one line per non-blank
\* input line (N - B lines), in input order, each the encoding of the
\* transform of that input line; blank lines produce nothing.
C4_OneLinePerNonBlank ==
    (pc = "done" /\ error = "")
    => /\ pos = Len(stdin)
       /\ Len(stdout) = Len(stdin) - Cardinality({i \in 1..Len(stdin) : Blank(stdin[i])})
       /\ OutputIsOfFirst(Len(stdin))

\* C4 witness: a run over three lines, one of them blank and not the last,
\* ended without error.
C4_Witness ==
    /\ pc = "done"
    /\ error = ""
    /\ Len(stdin) = 3
    /\ Blank(stdin[2])
    /\ Len(stdout) = 2
    /\ stdout[1] # stdout[2]

\* C5: once the loop has taken a non-blank line that is not valid JSON, the
\* process has ended there with a parse error: stdout holds exactly the
\* lines for the non-blank lines before it, none for it and none for any
\* later line.
C5_FatalParseError ==
    \A k \in 1..pos :
        (~Blank(stdin[k]) /\ json_loads(stdin[k]).exc # "")
        => FailedAt(k, "JSONDecodeError")

\* C5 witness: a run stopped at a malformed second line with one line
\* printed and a valid third line unread.
C5_Witness ==
    /\ pc = "done"
    /\ error = "JSONDecodeError"
    /\ pos = 2
    /\ Len(stdin) = 3
    /\ Len(stdout) = 1
    /\ json_loads(stdin[3]).exc = ""
    /\ transform_record(json_loads(stdin[3]).v).exc = ""

\* C6: whenever transform_record is called on a record whose LocationGeo is
\* a non-empty mapping lacking latitude or longitude, it raises KeyError,
\* the record still holds the original mapping, and the process has ended
\* without an output line for that record.
C6_MissingSubField ==
    (/\ Called
     /\ HasGeoKey(arg)
     /\ ValueOf(arg, "LocationGeo").t = "dict"
     /\ ValueOf(arg, "LocationGeo") # JDict(<<>>)
     /\ ~({"latitude", "longitude"} \subseteq KeySet(ValueOf(arg, "LocationGeo"))))
    => /\ outcome = "raise"
       /\ exc = "KeyError"
       /\ record = arg
       /\ FailedAt(pos, "KeyError")

\* C6 witness: a record with latitude and no longitude, after a line that
\* was printed.
C6_Witness ==
    /\ outcome = "raise"
    /\ exc = "KeyError"
    /\ HasGeoKey(arg)
    /\ KeySet(ValueOf(arg, "LocationGeo")) = {"latitude"}
    /\ pos = 2
    /\ Len(stdout) = 1

\* C7 as stated: whenever transform_record is called on a record whose
\* LocationGeo key is present with a value that is not a mapping, it raises
\* TypeError.
C7_Original ==
    (/\ Called
     /\ HasGeoKey(arg)
     /\ ValueOf(arg, "LocationGeo").t # "dict")
    => (outcome = "raise" /\ exc = "TypeError")

\* C7 amended: whenever transform_record is called on a record whose
\* LocationGeo key is present with a truthy value that is not a mapping, it
\* raises TypeError and the process ends there; a falsy value that is not a
\* mapping (null, false, 0, "", []) raises nothing.
C7_TruthyNonMapping ==
    (/\ Called
     /\ HasGeoKey(arg)
     /\ ValueOf(arg, "LocationGeo").t # "dict")
    => IF ValueOf(arg, "LocationGeo") \in FalsyValues
       THEN outcome = "return"
       ELSE /\ outcome = "raise"
            /\ exc = "TypeError"
            /\ record = arg
            /\ FailedAt(pos, "TypeError")

\* C7 witness: a record whose LocationGeo is a non-empty string made the
\* call raise TypeError.
C7_Witness ==
    /\ outcome = "raise"
    /\ exc = "TypeError"
    /\ run = 1
    /\ HasGeoKey(arg)
    /\ ValueOf(arg, "LocationGeo") = JStr("POINT(1 2)")

\* The lines of standard input whose decoding or transformation raises.
FailingLines ==
    { k \in 1..Len(stdin) :
        /\ ~Blank(stdin[k])
        /\ \/ json_loads(stdin[k]).exc # ""
           \/ transform_record(json_loads(stdin[k]).v).exc # "" }

\* How a finished process has ended: by failure at the first failing line,
\* no later line read, or by success at end-of-stream if no line fails.
EndedOneOfTwoWays ==
    IF FailingLines = {}
    THEN exit_code = 0 /\ error = "" /\ pos = Len(stdin)
    ELSE LET first == CHOOSE k \in FailingLines : \A m \in FailingLines : k <= m
         IN  /\ exit_code = 1
             /\ pos = first
             /\ pos <= Len(stdin)
             /\ error = (IF json_loads(stdin[first]).exc # ""
                         THEN "JSONDecodeError"
                         ELSE transform_record(json_loads(stdin[first]).v).exc)

\* C8: every run on a finite stream ends, and a run that has ended has
\* either failed (exit status 1) at the first line whose decoding or
\* transformation raises, without taking a further line, or succeeded (exit
\* status 0) at end-of-stream with no line having raised.
C8_TerminatesOneOfTwoWays ==
    /\ (pc = "reading") ~> (pc = "done")
    /\ [](pc = "done" => EndedOneOfTwoWays)

\* C8 witness: a run failed at its first line with two lines left unread.
C8_Witness ==
    /\ pc = "done"
    /\ exit_code = 1
    /\ pos = 1
    /\ Len(stdin) = 3
    /\ stdout = <<>>

\* C9: a record that transform_record rewrote makes a second call raise
\* TypeError, so a run on the output of an earlier run fails at the first
\* rewritten record; the calls that return in such a run return their
\* input, and only for records whose LocationGeo is absent or falsy.
C9_NotIdempotent ==
    /\ (outcome = "return" /\ record # arg)
         => /\ ValueOf(record, "LocationGeo").t = "str"
            /\ ValueOf(record, "LocationGeo") \notin FalsyValues
            /\ transform_record(record) = Raise("TypeError", record)
    /\ (outcome = "return" /\ record = arg)
         => transform_record(record) = Return(record)
    /\ run = 2
         => /\ \A k \in 1..pos : fed[k] => FailedAt(k, "TypeError")
            /\ outcome = "raise" => (fed[pos] /\ exc = "TypeError")
            /\ outcome = "return"
                 => /\ ~fed[pos]
                    /\ record = arg
                    /\ stdout[Len(stdout)] = stdin[pos]
                    /\ (HasGeoKey(arg) => ValueOf(arg, "LocationGeo") \in FalsyValues)

\* C9 witness: a run on the output of an earlier run printed its first
\* line, which had not been rewritten, and failed with TypeError at its
\* second, which had, leaving a third unread.
C9_Witness ==
    /\ run = 2
    /\ pc = "done"
    /\ error = "TypeError"
    /\ pos = 2
    /\ Len(stdin) = 3
    /\ fed[1] = FALSE
    /\ fed[2] = TRUE
    /\ Len(stdout) = 1

\* C10: once the loop has taken a non-blank line that decodes to a number,
\* a boolean or null, the process has ended there with TypeError raised by
\* the call: no output line for that line or any later one.
C10_ScalarLineIsFatal ==
    \A k \in 1..pos :
        (/\ ~Blank(stdin[k])
         /\ json_loads(stdin[k]).exc = ""
         /\ json_loads(stdin[k]).v.t \in {"int", "float", "bool", "null"})
        => /\ FailedAt(k, "TypeError")
           /\ outcome = "raise"
           /\ exc = "TypeError"
           /\ arg = json_loads(stdin[k]).v

\* C10 witness: a run stopped with TypeError at a second line holding the
\* number 5, after one printed line and before a line left unread.
C10_Witness ==
    /\ pc = "done"
    /\ error = "TypeError"
    /\ arg = JInt("5")
    /\ pos = 2
    /\ Len(stdin) = 3
    /\ Len(stdout) = 1

====
